---- MODULE Spec2Model ----
(***************************************************************************)
(* Model of examples/bots/python_bot.py: the demo Telegram bot that sends  *)
(* a two-button WebApp menu on /start and echoes back the JSON order sent  *)
(* by the WebApp (handle_web_app_data).                                    *)
(*                                                                         *)
(* Texts are sequences of fragments (strings); a formatted number is one   *)
(* fragment per character, so that a displayed price can be read back.     *)
(* Python integers are unbounded: they are kept as little-endian sequences *)
(* of 15-bit limbs (<<>> is 0), and a Python float as mantissa * 2^exp     *)
(* with a mantissa of at most 53 bits, which is what `price_cents / 100`   *)
(* and `:.2f` compute on.                                                  *)
(***************************************************************************)
EXTENDS Integers, Sequences, FiniteSets, TLC

(***************************************************************************)
(* Bounds of the model.                                                    *)
(***************************************************************************)
\* price_cents ranges over -MaxCents..MaxCents (plus the named prices below)
MaxCents == 12

(***************************************************************************)
(* Python int: arbitrary-precision naturals, little-endian, 15-bit limbs   *)
(***************************************************************************)
LimbBits == 15
Base == 32768

RECURSIVE Pow2(_)
Pow2(k) == IF k <= 0 THEN 1 ELSE 2 * Pow2(k - 1)

RECURSIVE Zeros(_)
Zeros(k) == IF k <= 0 THEN <<>> ELSE <<0>> \o Zeros(k - 1)

RECURSIVE Trim(_)
\* drop the high-order zero limbs
Trim(b) == IF b = <<>> THEN <<>>
           ELSE IF b[Len(b)] = 0 THEN Trim(SubSeq(b, 1, Len(b) - 1))
           ELSE b

RECURSIVE NatLimbs(_)
NatLimbs(n) == IF n = 0 THEN <<>> ELSE <<n % Base>> \o NatLimbs(n \div Base)

RECURSIVE MulAdd(_, _, _)
\* b * m + c for m <= Base and c < Base * Base
MulAdd(b, m, c) ==
    IF b = <<>> THEN NatLimbs(c)
    ELSE LET t == b[1] * m + c
         IN  <<t % Base>> \o MulAdd(Tail(b), m, t \div Base)

RECURSIVE DivMod(_, _)
\* quotient (untrimmed) and remainder of b by d <= Base
DivMod(b, d) ==
    IF b = <<>> THEN [q |-> <<>>, r |-> 0]
    ELSE LET hi == DivMod(Tail(b), d)
             t  == Base * hi.r + b[1]
         IN  [q |-> <<t \div d>> \o hi.q, r |-> t % d]

RECURSIVE Inc(_)
Inc(b) == IF b = <<>> THEN <<1>>
          ELSE IF b[1] < Base - 1 THEN <<b[1] + 1>> \o Tail(b)
          ELSE <<0>> \o Inc(Tail(b))

RECURSIVE AnyOne(_)
AnyOne(b) == IF b = <<>> THEN FALSE ELSE b[1] # 0 \/ AnyOne(Tail(b))

IsOdd(b) == b # <<>> /\ b[1] % 2 = 1

RECURSIVE SmallBitLen(_)
SmallBitLen(n) == IF n = 0 THEN 0 ELSE 1 + SmallBitLen(n \div 2)

\* the number of bits of b (0 for 0)
BitLen(b) ==
    LET t == Trim(b)
    IN  IF t = <<>> THEN 0
        ELSE LimbBits * (Len(t) - 1) + SmallBitLen(t[Len(t)])

\* b * 2^k
ShiftLeft(b, k) ==
    IF Trim(b) = <<>> THEN <<>>
    ELSE Trim(MulAdd(Zeros(k \div LimbBits) \o b, Pow2(k % LimbBits), 0))

\* floor(b / 2^k)
ShiftRight(b, k) ==
    LET drop == k \div LimbBits
    IN  IF drop >= Len(b) THEN <<>>
        ELSE Trim(DivMod(SubSeq(b, drop + 1, Len(b)), Pow2(k % LimbBits)).q)

\* whether any of the k low-order bits of b is set
LowBitsSet(b, k) ==
    LET drop == k \div LimbBits
    IN  IF drop >= Len(b) THEN AnyOne(b)
        ELSE AnyOne(SubSeq(b, 1, drop)) \/ b[drop + 1] % Pow2(k % LimbBits) # 0

RECURSIVE NatOfDigits(_, _)
\* int("d1 d2 ... dn"): the decimal digits, most significant first, onto acc
NatOfDigits(acc, ds) ==
    IF ds = <<>> THEN Trim(acc)
    ELSE NatOfDigits(MulAdd(acc, 10, ds[1]), Tail(ds))

RECURSIVE DigitsOfNat(_)
\* the decimal digits of b, most significant first (<<>> for 0)
DigitsOfNat(b) ==
    IF Trim(b) = <<>> THEN <<>>
    ELSE LET qr == DivMod(Trim(b), 10)
         IN  DigitsOfNat(Trim(qr.q)) \o <<qr.r>>

DigitChar == <<"0", "1", "2", "3", "4", "5", "6", "7", "8", "9">>

RECURSIVE DigitText(_)
DigitText(ds) == IF ds = <<>> THEN <<>>
                 ELSE <<DigitChar[ds[1] + 1]>> \o DigitText(Tail(ds))

\* the digits of an integer part, "0" for none
UnitsText(units) == IF units = <<>> THEN <<"0">> ELSE DigitText(units)

(***************************************************************************)
(* Python float (IEEE double): [kind, neg, m, e] stands for m * 2^e        *)
(***************************************************************************)
MantBits == 53
MaxExp == 1024

FloatNum(neg, m, e) == [kind |-> "num", neg |-> neg, m |-> m, e |-> e]
FloatNaN == [kind |-> "nan", neg |-> FALSE, m |-> <<>>, e |-> 0]
FloatInf(neg) == [kind |-> "inf", neg |-> neg, m |-> <<>>, e |-> 0]
FloatOverflow == [kind |-> "overflow", neg |-> FALSE, m |-> <<>>, e |-> 0]

\* q + (r + a little, when sticky) / d rounded to the nearest integer, ties
\* to even
RoundHalfEven(q, r, d, sticky) ==
    IF 2 * r > d \/ (2 * r = d /\ (sticky \/ IsOdd(q))) THEN Inc(q) ELSE q

RoundQuotient(qr, d, sticky) == RoundHalfEven(Trim(qr.q), qr.r, d, sticky)

\* n * 2^s / d rounded to the nearest integer, ties to even; s of either sign
ScaledDiv(n, s, d) ==
    RoundQuotient(DivMod(IF s >= 0 THEN ShiftLeft(n, s) ELSE ShiftRight(n, -s), d),
                  d, s < 0 /\ LowBitsSet(n, -s))

\* the float q * 2^(-s), or FloatOverflow beyond the range of a double
PackFloat(neg, q, s) ==
    IF BitLen(q) - s > MaxExp THEN FloatOverflow ELSE FloatNum(neg, q, -s)

\* q0 is n * 2^s0 / 100 rounded: kept when it fits the mantissa, else
\* rounded again one bit shorter
NormalFloat(neg, n, s0, q0) ==
    IF BitLen(q0) > MantBits
    THEN PackFloat(neg, ScaledDiv(n, s0 - 1, 100), s0 - 1)
    ELSE PackFloat(neg, q0, s0)

ScaledFloat(neg, n, s0) == NormalFloat(neg, n, s0, ScaledDiv(n, s0, 100))

\* int / 100 (true division): the double nearest to n / 100;
\* FloatOverflow when the quotient exceeds the range of a double
TrueDiv100(neg, n) ==
    IF Trim(n) = <<>> THEN FloatNum(FALSE, <<>>, 0)
    ELSE ScaledFloat(neg, n, MantBits + 7 - BitLen(n))

\* faulty variant, for sensitivity of the properties: the hundredths without their zero padding
TwoDigits_NoPad(n) == UnitsText(DigitsOfNat(NatLimbs(n)))

\* the two-digit, zero-padded text of n < 100
TwoDigits(n) == <<DigitChar[(n \div 10) + 1], DigitChar[(n % 10) + 1]>>

\* h / 2^k rounded to the nearest integer, ties to even; k of either sign
RoundShift(h, k) ==
    IF k <= 0 THEN ShiftLeft(h, -k)
    ELSE IF IsOdd(ShiftRight(h, k - 1))
            /\ (LowBitsSet(h, k - 1) \/ IsOdd(ShiftRight(h, k)))
    THEN Inc(ShiftRight(h, k))
    ELSE ShiftRight(h, k)

\* sign, integer digits, ".", two digits of the hundredths qr.q * 100 + qr.r
FixedText(neg, qr) ==
    (IF neg THEN <<"-">> ELSE <<>>)
    \o UnitsText(DigitsOfNat(Trim(qr.q))) \o <<".">> \o TwoDigits(qr.r)

\* f"{x:.2f}": the value rounded (ties to even) to hundredths, as sign,
\* integer digits, ".", two digits
Format2f(x) ==
    IF x.kind = "nan" THEN <<"n", "a", "n">>
    ELSE IF x.kind = "inf"
    THEN (IF x.neg THEN <<"-">> ELSE <<>>) \o <<"i", "n", "f">>
    ELSE FixedText(x.neg, DivMod(RoundShift(Trim(MulAdd(x.m, 100, 0)), -x.e), 100))

(***************************************************************************)
(* Python values, as json.loads builds them                                *)
(***************************************************************************)
NoFloat == [kind |-> "none", neg |-> FALSE, m |-> <<>>, e |-> 0]

PyValue(t, neg, n, f, s, items) ==
    [t |-> t, neg |-> neg, n |-> n, f |-> f, s |-> s, items |-> items]

PyNone == PyValue("NoneType", FALSE, <<>>, NoFloat, "", <<>>)
PyBool(b) == PyValue("bool", FALSE, IF b THEN <<1>> ELSE <<>>, NoFloat, "", <<>>)
PyInt(neg, n) == PyValue("int", neg /\ Trim(n) # <<>>, Trim(n), NoFloat, "", <<>>)
PyFloat(f) == PyValue("float", FALSE, <<>>, f, "", <<>>)
PyStr(s) == PyValue("str", FALSE, <<>>, NoFloat, s, <<>>)
PyList(items) == PyValue("list", FALSE, <<>>, NoFloat, "", items)
\* a dict: its <<key, value>> pairs in insertion order, keys distinct
PyDict(items) == PyValue("dict", FALSE, <<>>, NoFloat, "", items)

HasKey(items, key) == \E i \in 1..Len(items) : items[i][1] = key

\* d[key] = v: a key already present keeps its place and takes the new value
DictSet(items, key, v) ==
    IF HasKey(items, key)
    THEN [i \in 1..Len(items) |->
             IF items[i][1] = key THEN <<key, v>> ELSE items[i]]
    ELSE Append(items, <<key, v>>)

\* dict.get(key, default)
DictGet(items, key, default) ==
    IF HasKey(items, key)
    THEN items[CHOOSE i \in 1..Len(items) : items[i][1] = key][2]
    ELSE default

(***************************************************************************)
(* json.loads, on the payload text as its sequence of lexical tokens       *)
(***************************************************************************)
Token(k, s, neg, ds) == [k |-> k, s |-> s, neg |-> neg, ds |-> ds]
Punct(c) == Token("punct", c, FALSE, <<>>)
StrTok(s) == Token("str", s, FALSE, <<>>)
IntTok(neg, ds) == Token("int", "", neg, ds)
ConstTok(word) == Token("const", word, FALSE, <<>>)
\* text that starts no JSON value: a bare word, a single-quoted string, ...
JunkTok(s) == Token("junk", s, FALSE, <<>>)
EndOfText == Token("eof", "", FALSE, <<>>)

TokAt(toks, i) == IF i <= Len(toks) THEN toks[i] ELSE EndOfText

IsPunct(tok, c) == tok.k = "punct" /\ tok.s = c

Parsed(v, next) == [ok |-> TRUE, v |-> v, next |-> next, msg |-> ""]
\* json.JSONDecodeError(msg)
DecodeError(msg, at) == [ok |-> FALSE, v |-> PyNone, next |-> at, msg |-> msg]

\* the constants the scanner accepts, NaN and the infinities included
ConstValue(word) ==
    CASE word = "null" -> PyNone
      [] word = "true" -> PyBool(TRUE)
      [] word = "false" -> PyBool(FALSE)
      [] word = "NaN" -> PyFloat(FloatNaN)
      [] word = "Infinity" -> PyFloat(FloatInf(FALSE))
      [] word = "-Infinity" -> PyFloat(FloatInf(TRUE))

RECURSIVE ScanOnce(_, _)
RECURSIVE ParseMembers(_, _, _)
RECURSIVE ParseElements(_, _, _)

\* the members of an object from the key at i on, up to the closing brace
ParseMembers(toks, i, acc) ==
    IF TokAt(toks, i).k # "str"
    THEN DecodeError("Expecting property name enclosed in double quotes", i)
    ELSE IF ~IsPunct(TokAt(toks, i + 1), ":")
    THEN DecodeError("Expecting ':' delimiter", i + 1)
    ELSE LET val == ScanOnce(toks, i + 2)
             now == DictSet(acc, toks[i].s, val.v)
             sep == TokAt(toks, val.next)
         IN  IF ~val.ok THEN val
             ELSE IF IsPunct(sep, "}") THEN Parsed(PyDict(now), val.next + 1)
             ELSE IF IsPunct(sep, ",") THEN ParseMembers(toks, val.next + 1, now)
             ELSE DecodeError("Expecting ',' delimiter", val.next)

\* the elements of an array from the value at i on, up to the closing bracket
ParseElements(toks, i, acc) ==
    LET val == ScanOnce(toks, i)
        now == Append(acc, val.v)
        sep == TokAt(toks, val.next)
    IN  IF ~val.ok THEN val
        ELSE IF IsPunct(sep, "]") THEN Parsed(PyList(now), val.next + 1)
        ELSE IF IsPunct(sep, ",") THEN ParseElements(toks, val.next + 1, now)
        ELSE DecodeError("Expecting ',' delimiter", val.next)

\* one JSON value starting at token i
ScanOnce(toks, i) ==
    LET tok == TokAt(toks, i)
    IN  CASE tok.k = "str" -> Parsed(PyStr(tok.s), i + 1)
          [] tok.k = "int" ->
                Parsed(PyInt(tok.neg, NatOfDigits(<<>>, tok.ds)), i + 1)
          [] tok.k = "const" -> Parsed(ConstValue(tok.s), i + 1)
          [] IsPunct(tok, "{") ->
                IF IsPunct(TokAt(toks, i + 1), "}")
                THEN Parsed(PyDict(<<>>), i + 2)
                ELSE ParseMembers(toks, i + 1, <<>>)
          [] IsPunct(tok, "[") ->
                IF IsPunct(TokAt(toks, i + 1), "]")
                THEN Parsed(PyList(<<>>), i + 2)
                ELSE ParseElements(toks, i + 1, <<>>)
          [] OTHER -> DecodeError("Expecting value", i)

\* json.loads(text): one value, then the end of the text
json_loads(toks) ==
    LET r == ScanOnce(toks, 1)
    IN  IF r.ok /\ r.next # Len(toks) + 1
        THEN DecodeError("Extra data", r.next)
        ELSE r

(***************************************************************************)
(* str() and repr(), as the f-strings apply them                           *)
(***************************************************************************)
IntText(neg, n) ==
    (IF neg THEN <<"-">> ELSE <<>>)
    \o (IF Trim(n) = <<>> THEN <<"0">> ELSE DigitText(DigitsOfNat(n)))

RECURSIVE Repr(_)
RECURSIVE ReprItems(_, _)

\* the items of a list or dict display from the i-th on, joined by ", "
ReprItems(v, i) ==
    IF i > Len(v.items) THEN <<>>
    ELSE (IF i > 1 THEN <<", ">> ELSE <<>>)
         \o (IF v.t = "dict"
             THEN <<"'", v.items[i][1], "'", ": ">> \o Repr(v.items[i][2])
             ELSE Repr(v.items[i]))
         \o ReprItems(v, i + 1)

Repr(v) ==
    CASE v.t = "NoneType" -> <<"None">>
      [] v.t = "bool" -> IF v.n # <<>> THEN <<"True">> ELSE <<"False">>
      [] v.t = "int" -> IntText(v.neg, v.n)
      [] v.t = "float" ->
            IF v.f.kind = "nan" THEN <<"nan">>
            ELSE IF v.f.neg THEN <<"-inf">> ELSE <<"inf">>
      [] v.t = "str" -> <<"'", v.s, "'">>
      [] v.t = "list" -> <<"[">> \o ReprItems(v, 1) \o <<"]">>
      [] v.t = "dict" -> <<"{">> \o ReprItems(v, 1) \o <<"}">>

\* str(v), what f"{v}" inserts
Str(v) == IF v.t = "str" THEN <<v.s>> ELSE Repr(v)

(***************************************************************************)
(* Effects and exceptions                                                  *)
(***************************************************************************)
Exc(type, text) == [type |-> type, text |-> text]
NoExc == Exc("", <<>>)
\* update.message.reply_text failing (telegram.error.TimedOut and the like)
SendFailed == Exc("TimedOut", <<"Timed out">>)
\* print failing (standard output closed, or unable to encode the line)
PrintFailed == Exc("BrokenPipeError", <<"[Errno 32] Broken pipe">>)

\* one call of reply_text or print: what was passed, and whether it went through
Event(op, ok, text, buttons) ==
    [op |-> op, ok |-> ok, text |-> text, buttons |-> buttons]
Reply(ok, text) == Event("reply", ok, text, <<>>)
Printed(ok, text) == Event("print", ok, text, <<>>)

RECURSIVE CountOp(_, _)
CountOp(trace, op) ==
    IF trace = <<>> THEN 0
    ELSE (IF trace[1].op = op THEN 1 ELSE 0) + CountOp(Tail(trace), op)

Outcome(trace, raised) == [trace |-> trace, raised |-> raised]

(***************************************************************************)
(* start                                                                   *)
(***************************************************************************)
DefaultUrl == "https://example.com"

\* context.bot_data.get(key, default)
BotDataGet(bd, key, default) == IF key \in DOMAIN bd THEN bd[key] ELSE default

\* faulty variant, for sensitivity of the properties: the configured default wins over the command's argument
StartUrl_DefaultFirst(args, bd) ==
    IF "webapp_url" \in DOMAIN bd THEN bd["webapp_url"]
    ELSE IF Len(args) < 1 THEN DefaultUrl ELSE args[1]

\* lines 23-26: the URL the buttons are built from
StartUrl(args, bd) ==
    IF Len(args) < 1 THEN BotDataGet(bd, "webapp_url", DefaultUrl)
    ELSE args[1]

Button(label, url) == [text |-> label, url |-> url]

\* lines 28-41: one button per row
Keyboard(webapp_url) ==
    << Button("Open Burger King Menu", webapp_url \o "#/burger-king"),
       Button("View Init Data", webapp_url \o "#/init-data") >>

WelcomeText ==
    <<"Welcome to the Telegram WebApp SDK Demo!\n\n",
      "Click a button below to open the WebApp:">>

\* start(update, context): net[1] tells whether its reply_text goes through
start(args, bd, net) ==
    LET ev == Event("reply", net[1], WelcomeText, Keyboard(StartUrl(args, bd)))
    IN  Outcome(<<ev>>, IF net[1] THEN NoExc ELSE SendFailed)

\* faulty variant, for sensitivity of the properties: the argument of /start is stored as the new default
BotDataAfterStart_Persist(args, bd) ==
    IF Len(args) < 1 THEN bd ELSE [k \in {"webapp_url"} |-> args[1]]

\* start assigns nothing to context.bot_data
BotDataAfterStart(args, bd) == bd

(***************************************************************************)
(* handle_web_app_data                                                     *)
(***************************************************************************)
\* the emoji of the source are written as their code points
CrossMark == "U+274C"
CheckMark == "U+2705"

ParseErrorText == <<CrossMark, " Error: Could not parse order data.">>

ErrorText(e) == <<CrossMark, " Error processing order: ">> \o e.text
ErrorLog(e) == <<"[Error] ">> \o e.text

\* faulty variant, for sensitivity of the properties: a missing name is not defaulted
ItemName_NoDefault(data) == DictGet(data.items, "name", PyNone)

\* lines 62-64
ItemId(data) == DictGet(data.items, "id", PyNone)
ItemName(data) == DictGet(data.items, "name", PyStr("Unknown"))
PriceCents(data) == DictGet(data.items, "price_cents", PyInt(FALSE, <<>>))

\* line 65: price_cents / 100, a float or the exception it raises
Quotient(x) ==
    IF x.kind = "overflow"
    THEN [exc |-> Exc("OverflowError",
                      <<"integer division result too large for a float">>),
          x |-> x]
    ELSE [exc |-> NoExc, x |-> x]

PriceDollars(price_cents) ==
    IF price_cents.t \in {"int", "bool"}
    THEN Quotient(TrueDiv100(price_cents.neg, price_cents.n))
    ELSE IF price_cents.t = "float"
    THEN [exc |-> NoExc, x |-> price_cents.f]
    ELSE [exc |-> Exc("TypeError",
                      <<"unsupported operand type(s) for /: '", price_cents.t,
                        "' and 'int'">>),
          x |-> NoFloat]

\* lines 67-73
Response(item_id, item_name, price_dollars) ==
    <<CheckMark, " Order Received!\n\n", "Item: ">> \o Str(item_name)
    \o <<"\n", "Price: $">> \o Format2f(price_dollars)
    \o <<"\n", "Order ID: #">> \o Str(item_id)
    \o <<"\n\n", "Your order is being processed...">>

\* line 77
OrderLog(user_id, item_name, price_dollars) ==
    <<"[Order] User ">> \o IntText(FALSE, NatLimbs(user_id))
    \o <<" ordered: ">> \o Str(item_name)
    \o <<" ($">> \o Format2f(price_dollars) \o <<")">>

\* faulty variant, for sensitivity of the properties: the order line is printed before the confirmation is sent
SendAndLog_LogFirst(response, line, net, tty) ==
    IF ~tty[1] THEN Outcome(<<Printed(FALSE, line)>>, PrintFailed)
    ELSE IF ~net[1]
    THEN Outcome(<<Printed(TRUE, line), Reply(FALSE, response)>>, SendFailed)
    ELSE Outcome(<<Printed(TRUE, line), Reply(TRUE, response)>>, NoExc)

\* lines 75-77: send the confirmation, then print the order line
SendAndLog(response, line, net, tty) ==
    IF ~net[1] THEN Outcome(<<Reply(FALSE, response)>>, SendFailed)
    ELSE IF ~tty[1]
    THEN Outcome(<<Reply(TRUE, response), Printed(FALSE, line)>>, PrintFailed)
    ELSE Outcome(<<Reply(TRUE, response), Printed(TRUE, line)>>, NoExc)

\* lines 65-77, with the three fields extracted
Confirm(item_id, item_name, price, user_id, net, tty) ==
    IF price.exc # NoExc THEN Outcome(<<>>, price.exc)
    ELSE SendAndLog(Response(item_id, item_name, price.x),
                    OrderLog(user_id, item_name, price.x), net, tty)

\* lines 62-77, the try block after json.loads: the effects up to the first
\* exception, and that exception (NoExc when the block completes)
TryBody(data, user_id, net, tty) ==
    IF data.t # "dict"
    THEN Outcome(<<>>, Exc("AttributeError",
                           <<"'", data.t, "' object has no attribute 'get'">>))
    ELSE Confirm(ItemId(data), ItemName(data), PriceDollars(PriceCents(data)),
                 user_id, net, tty)

\* lines 79-82, except json.JSONDecodeError: a failing reply propagates
ExceptDecodeError(net) ==
    Outcome(<<Reply(net[1], ParseErrorText)>>,
            IF net[1] THEN NoExc ELSE SendFailed)

\* lines 83-87, except Exception as e: the reply and the print are the next
\* calls of the invocation; one that fails propagates out of the handler
ExceptException(trace, e, net, tty) ==
    LET r == CountOp(trace, "reply") + 1
        p == CountOp(trace, "print") + 1
    IN  IF ~net[r]
        THEN Outcome(Append(trace, Reply(FALSE, ErrorText(e))), SendFailed)
        ELSE IF ~tty[p]
        THEN Outcome(trace \o <<Reply(TRUE, ErrorText(e)),
                                Printed(FALSE, ErrorLog(e))>>, PrintFailed)
        ELSE Outcome(trace \o <<Reply(TRUE, ErrorText(e)),
                                Printed(TRUE, ErrorLog(e))>>, NoExc)

\* lines 59-87 after the try block: its outcome, or the except clause that
\* takes its exception
AfterTry(body, net, tty) ==
    IF body.raised = NoExc THEN body
    ELSE ExceptException(body.trace, body.raised, net, tty)

\* lines 59-87 after json.loads returned or raised
AfterLoads(parsed, user_id, net, tty) ==
    IF ~parsed.ok THEN ExceptDecodeError(net)
    ELSE AfterTry(TryBody(parsed.v, user_id, net, tty), net, tty)

\* handle_web_app_data(update, context): data_text is
\* update.message.web_app_data.data; net[i] and tty[i] tell whether the i-th
\* reply_text and the i-th print of the invocation go through
handle_web_app_data(data_text, user_id, net, tty) ==
    AfterLoads(json_loads(data_text), user_id, net, tty)

(***************************************************************************)
(* main                                                                    *)
(***************************************************************************)
UsageText == <<"Usage: python python_bot.py YOUR_BOT_TOKEN [WEBAPP_URL]">>
StartingText(webapp_url) == <<"Starting bot with WebApp URL: ", webapp_url>>
RunningText == <<"Bot is running... Press Ctrl+C to stop.">>

\* line 91
TokenMissing(argv) == Len(argv) < 2

\* line 96
MainWebappUrl(argv) == IF Len(argv) > 2 THEN argv[3] ELSE DefaultUrl

\* faulty variant, for sensitivity of the properties: polling starts before the configuration is stored
MainSteps_PollingFirst ==
    <<"build", "run_polling", "set_bot_data", "add_start", "add_data">>

\* lines 100-107: the statements of main after its prints, in program order
MainSteps == <<"build", "set_bot_data", "add_start", "add_data", "run_polling">>

\* the position after statement `step` of main
After(step) ==
    LET i == CHOOSE k \in 1..Len(MainSteps) : MainSteps[k] = step
    IN  IF i < Len(MainSteps) THEN MainSteps[i + 1] ELSE "polling"

(***************************************************************************)
(* Inputs: command lines, /start arguments, WebApp payloads                *)
(***************************************************************************)
ArgvChoices ==
    { <<"python_bot.py">>,
      <<"python_bot.py", "TOKEN">>,
      <<"python_bot.py", "TOKEN", "https://my.app/index.html">> }

StartArgChoices ==
    { <<>>, <<"https://other.app">>, <<"https://other.app", "extra">> }

Users == {42}

\* whether the 1st and the 2nd reply_text (print) of an invocation go through
IoChoices == [1..2 -> BOOLEAN]

Abs(i) == IF i < 0 THEN -i ELSE i

\* the integer literal of i
IntLit(i) ==
    IntTok(i < 0, IF i = 0 THEN <<0>> ELSE DigitsOfNat(NatLimbs(Abs(i))))

RECURSIVE JoinMembers(_, _)
JoinMembers(ms, i) ==
    IF i > Len(ms) THEN <<>>
    ELSE (IF i > 1 THEN <<Punct(",")>> ELSE <<>>)
         \o <<StrTok(ms[i][1]), Punct(":")>> \o ms[i][2]
         \o JoinMembers(ms, i + 1)

\* the text of the object with members ms (<<key, value text>> pairs)
ObjectText(ms) == <<Punct("{")>> \o JoinMembers(ms, 1) \o <<Punct("}")>>

\* a field of the order: <<>> when the key is absent, else <<value text>>
Absent == <<>>
Present(text) == <<text>>

Member(key, field) == IF field = Absent THEN <<>> ELSE << <<key, field[1]>> >>

\* what the page sends: {"id": ..., "name": ..., "price_cents": ...}
OrderText(id, name, price) ==
    ObjectText(Member("id", id) \o Member("name", name)
               \o Member("price_cents", price))

IdChoices ==
    { Absent, Present(<<ConstTok("null")>>), Present(<<IntLit(1)>>),
      Present(<<StrTok("A7")>>),
      Present(<<Punct("["), IntLit(1), Punct(","), StrTok("x"), Punct("]")>>) }

NameChoices ==
    { Absent, Present(<<StrTok("Whopper")>>), Present(<<IntLit(7)>>),
      Present(<<ConstTok("null")>>) }

\* 2^46 * 100, and the integers around it and around 2^53
Exact46 == <<7,0,3,6,8,7,4,4,1,7,7,6,6,4,0,0>>
Above46 == <<7,0,3,6,8,7,4,4,1,7,7,6,6,4,0,1>>
Above53 == <<9,0,0,7,1,9,9,2,5,4,7,4,0,9,9,3>>

NamedPrices ==
    { IntTok(FALSE, <<9, 9>>), IntTok(FALSE, <<1, 0, 0>>),
      IntTok(FALSE, <<1, 0, 1>>), IntTok(FALSE, <<5, 9, 9>>),
      IntTok(FALSE, <<1, 0, 0, 0>>), IntTok(TRUE, <<5, 9, 9>>),
      IntTok(TRUE, <<1, 0, 0>>), IntTok(TRUE, <<0>>),
      IntTok(FALSE, Exact46), IntTok(TRUE, Exact46),
      IntTok(FALSE, Above46), IntTok(TRUE, Above53) }

PriceInts == { IntLit(i) : i \in -MaxCents..MaxCents } \cup NamedPrices

CorePrices ==
    { Absent, Present(<<IntLit(5)>>), Present(<<IntTok(FALSE, <<5, 9, 9>>)>>),
      Present(<<ConstTok("null")>>), Present(<<StrTok("599")>>),
      Present(<<ConstTok("true")>>), Present(<<ConstTok("NaN")>>),
      Present(<<Punct("["), Punct("]")>>) }

OrderPayloads ==
    { OrderText(i, n, p) : i \in IdChoices, n \in NameChoices, p \in CorePrices }
    \cup { OrderText(Present(<<IntLit(1)>>), Present(<<StrTok("Whopper")>>),
                     Present(<<t>>)) : t \in PriceInts }
    \cup { ObjectText(<< <<"name", <<StrTok("Whopper")>> >>,
                         <<"price_cents", <<IntLit(5)>> >>,
                         <<"name", <<StrTok("Fries")>> >> >>) }

\* JSON texts that are no object
OtherJson ==
    { <<StrTok("Whopper")>>, <<IntLit(5)>>, <<ConstTok("null")>>,
      <<ConstTok("true")>>, <<Punct("["), Punct("]")>>,
      <<Punct("["), ObjectText(<<>>)[1], ObjectText(<<>>)[2], Punct("]")>> }

\* texts outside the JSON grammar; json.loads accepts the first three
NonJson ==
    { <<ConstTok("NaN")>>, <<ConstTok("Infinity")>>, <<ConstTok("-Infinity")>>,
      OrderText(Absent, Absent, Present(<<ConstTok("NaN")>>)),
      <<>>, <<JunkTok("hello")>>, <<Punct("{")>>, <<Punct("}")>>,
      <<Punct("{"), StrTok("name"), Punct("}")>>,
      <<Punct("{"), StrTok("name"), Punct(":"), Punct("}")>>,
      <<Punct("{"), StrTok("id"), Punct(":"), IntLit(1), Punct(","), Punct("}")>>,
      <<Punct("{"), JunkTok("'id'"), Punct(":"), IntLit(1), Punct("}")>>,
      <<Punct("{"), IntLit(1), Punct(":"), IntLit(1), Punct("}")>>,
      <<Punct("["), IntLit(1), Punct(","), Punct("]")>>,
      <<Punct("["), IntLit(1), IntLit(2), Punct("]")>>,
      <<Punct("{"), Punct("}"), JunkTok("x")>>,
      <<IntLit(1), IntLit(2)>> }

Payloads == OrderPayloads \cup OtherJson \cup NonJson

(***************************************************************************)
(* The bot as a state machine                                              *)
(***************************************************************************)
VARIABLES
    sys_argv,       \* the command line
    pc,             \* main's position
    stdout,         \* what main has printed
    exit_status,    \* <<>> while running, <<code>> after sys.exit(code)
    app_built,      \* whether Application.builder()...build() has run
    bot_data,       \* app.bot_data
    handlers,       \* the handlers added to the application, in order
    call,           \* the update being handled and what its handler did
    last_override   \* history: the URL argument of the latest /start, or ""

vars == <<sys_argv, pc, stdout, exit_status, app_built, bot_data, handlers,
          call, last_override>>

Range(f) == { f[i] : i \in DOMAIN f }

EmptyBotData == [k \in {} |-> ""]

Update(type, args, data, user_id) ==
    [type |-> type, args |-> args, data |-> data, user_id |-> user_id]

Call(handler, update, out) ==
    [handler |-> handler, update |-> update, trace |-> out.trace,
     raised |-> out.raised]

NoCall == Call("", Update("", <<>>, <<>>, 0), Outcome(<<>>, NoExc))

Init ==
    /\ sys_argv \in ArgvChoices
    /\ pc = "check_args"
    /\ stdout = <<>>
    /\ exit_status = <<>>
    /\ app_built = FALSE
    /\ bot_data = EmptyBotData
    /\ handlers = <<>>
    /\ call = NoCall
    /\ last_override = ""

\* lines 91-93
MainUsage ==
    /\ pc = "check_args"
    /\ TokenMissing(sys_argv)
    /\ stdout' = Append(stdout, UsageText)
    /\ exit_status' = <<1>>
    /\ pc' = "exited"
    /\ UNCHANGED <<sys_argv, app_built, bot_data, handlers, call, last_override>>

\* lines 95-98
MainStart ==
    /\ pc = "check_args"
    /\ ~TokenMissing(sys_argv)
    /\ stdout' = Append(stdout, StartingText(MainWebappUrl(sys_argv)))
    /\ pc' = MainSteps[1]
    /\ UNCHANGED <<sys_argv, exit_status, app_built, bot_data, handlers, call,
                   last_override>>

\* line 100
MainBuild ==
    /\ pc = "build"
    /\ app_built' = TRUE
    /\ pc' = After("build")
    /\ UNCHANGED <<sys_argv, stdout, exit_status, bot_data, handlers, call,
                   last_override>>

\* line 101
MainSetBotData ==
    /\ pc = "set_bot_data"
    /\ bot_data' = [k \in DOMAIN bot_data \cup {"webapp_url"} |->
                       IF k = "webapp_url" THEN MainWebappUrl(sys_argv)
                       ELSE bot_data[k]]
    /\ pc' = After("set_bot_data")
    /\ UNCHANGED <<sys_argv, stdout, exit_status, app_built, handlers, call,
                   last_override>>

\* line 103
MainAddStart ==
    /\ pc = "add_start"
    /\ handlers' = Append(handlers, "start")
    /\ pc' = After("add_start")
    /\ UNCHANGED <<sys_argv, stdout, exit_status, app_built, bot_data, call,
                   last_override>>

\* line 104
MainAddData ==
    /\ pc = "add_data"
    /\ handlers' = Append(handlers, "handle_web_app_data")
    /\ pc' = After("add_data")
    /\ UNCHANGED <<sys_argv, stdout, exit_status, app_built, bot_data, call,
                   last_override>>

\* lines 106-107: from here on the framework dispatches updates
MainRunPolling ==
    /\ pc = "run_polling"
    /\ stdout' = Append(stdout, RunningText)
    /\ pc' = "polling"
    /\ UNCHANGED <<sys_argv, exit_status, app_built, bot_data, handlers, call,
                   last_override>>

\* a /start command reaches the CommandHandler added at line 103
DispatchStart ==
    /\ pc = "polling"
    /\ call = NoCall
    /\ "start" \in Range(handlers)
    /\ \E args \in StartArgChoices, user \in Users, net \in IoChoices :
          /\ call' = Call("start", Update("command", args, <<>>, user),
                          start(args, bot_data, net))
          /\ bot_data' = BotDataAfterStart(args, bot_data)
          /\ last_override' = IF Len(args) < 1 THEN last_override ELSE args[1]
    /\ UNCHANGED <<sys_argv, pc, stdout, exit_status, app_built, handlers>>

\* a web_app_data message reaches the MessageHandler added at line 104
DispatchWebAppData ==
    /\ pc = "polling"
    /\ call = NoCall
    /\ "handle_web_app_data" \in Range(handlers)
    /\ \E data \in Payloads, user \in Users, net \in IoChoices, tty \in IoChoices :
          call' = Call("handle_web_app_data",
                       Update("web_app_data", <<>>, data, user),
                       handle_web_app_data(data, user, net, tty))
    /\ UNCHANGED <<sys_argv, pc, stdout, exit_status, app_built, bot_data,
                   handlers, last_override>>

\* the handler is over (returned, or raised into the framework, which logs
\* the exception); polling goes on
HandlerDone ==
    /\ pc = "polling"
    /\ call # NoCall
    /\ call' = NoCall
    /\ UNCHANGED <<sys_argv, pc, stdout, exit_status, app_built, bot_data,
                   handlers, last_override>>

Next ==
    \/ MainUsage
    \/ MainStart
    \/ MainBuild
    \/ MainSetBotData
    \/ MainAddStart
    \/ MainAddData
    \/ MainRunPolling
    \/ DispatchStart
    \/ DispatchWebAppData
    \/ HandlerDone

Spec == Init /\ [][Next]_vars

(***************************************************************************)
(* Vocabulary of the properties: what is read off a handled update         *)
(***************************************************************************)
StartHandled == call.handler = "start"
DataHandled == call.handler = "handle_web_app_data"

ReturnedNormally == call.raised.type = ""

IsSentReply(e) == e.op = "reply" /\ e.ok
IsPrintedLine(e) == e.op = "print" /\ e.ok
SentReplies == SelectSeq(call.trace, IsSentReply)
PrintedLines == SelectSeq(call.trace, IsPrintedLine)
AllWentThrough == \A k \in 1..Len(call.trace) : call.trace[k].ok

StartsWith(text, a, b) == Len(text) >= 2 /\ text[1] = a /\ text[2] = b
IsConfirmation(text) == StartsWith(text, "U+2705", " Order Received!\n\n")
IsParseError(text) == text = <<"U+274C", " Error: Could not parse order data.">>
IsGenericError(text) == StartsWith(text, "U+274C", " Error processing order: ")
IsOrderLine(text) == Len(text) >= 1 /\ text[1] = "[Order] User "
IsErrorLine(text) == Len(text) >= 1 /\ text[1] = "[Error] "

\* the first place of fragment frag in text, from place `from` on
IndexOf(text, frag, from) ==
    CHOOSE i \in from..Len(text) :
        text[i] = frag /\ \A j \in from..(i - 1) : text[j] # frag

\* the fragments of text between the markers open and close
Between(text, open, close) ==
    SubSeq(text, IndexOf(text, open, 1) + 1,
           IndexOf(text, close, IndexOf(text, open, 1) + 1) - 1)

ItemShown(text) == Between(text, "Item: ", "\n")
PriceShown(text) == Between(text, "Price: $", "\n")
IdShown(text) == Between(text, "Order ID: #", "\n\n")
PriceLogged(text) == Between(text, " ($", ")")

\* a <= b for decimal digit sequences without leading zeros
DigitsLeq(a, b) ==
    \/ Len(a) < Len(b)
    \/ /\ Len(a) = Len(b)
       /\ \/ a = b
          \/ \E i \in 1..Len(a) :
                a[i] < b[i] /\ \A j \in 1..(i - 1) : a[j] = b[j]

\* the literal of an integer count of cents as a price: the digits padded to
\* three, a point before the last two, the sign unless the value is zero
PaddedDigits(ds) == IF Len(ds) < 3 THEN [i \in 1..(3 - Len(ds)) |-> 0] \o ds ELSE ds

CentsAsPrice(tok) ==
    LET ds == PaddedDigits(tok.ds)
    IN  (IF tok.neg /\ \E i \in 1..Len(ds) : ds[i] # 0 THEN <<"-">> ELSE <<>>)
        \o [i \in 1..(Len(ds) - 2) |-> DigitChar[ds[i] + 1]]
        \o <<".">>
        \o [i \in 1..2 |-> DigitChar[ds[Len(ds) - 2 + i] + 1]]

\* the payload is an order whose price_cents is the integer literal tok
OrderWithPrice(tok) ==
    \E i \in IdChoices, n \in NameChoices :
        call.update.data = OrderText(i, n, Present(<<tok>>))

\* the confirmation is what the handler sends first, it shows price, and so
\* does the order line
PriceShownAs(price) ==
    /\ call.trace # <<>>
    /\ call.trace[1].op = "reply"
    /\ IsConfirmation(call.trace[1].text)
    /\ PriceShown(call.trace[1].text) = price
    /\ \A k \in 1..Len(call.trace) :
          call.trace[k].op = "print" /\ IsOrderLine(call.trace[k].text)
              => PriceLogged(call.trace[k].text) = price

\* how a scalar field of the payload reads in a reply
ShownAs(tok) ==
    CASE tok.k = "str" -> <<tok.s>>
      [] tok.k = "int" ->
            (IF tok.neg THEN <<"-">> ELSE <<>>)
            \o [i \in 1..Len(tok.ds) |-> DigitChar[tok.ds[i] + 1]]
      [] tok.k = "const" /\ tok.s = "null" -> <<"None">>
      [] tok.k = "const" /\ tok.s = "true" -> <<"True">>
      [] tok.k = "const" /\ tok.s = "false" -> <<"False">>

IsScalar(field) == field # Absent /\ Len(field[1]) = 1

\* the default WebApp URL as the command line gives it
StartupDefault ==
    IF Len(sys_argv) >= 3 THEN sys_argv[3] ELSE "https://example.com"

ButtonUrls(e) == [i \in 1..Len(e.buttons) |-> e.buttons[i].url]

MenuFor(base) == <<base \o "#/burger-king", base \o "#/init-data">>

(***************************************************************************)
(* C1: every /start builds its two buttons from the first argument if      *)
(* there is one, else from bot_data["webapp_url"], else from               *)
(* "https://example.com"; it sends one message, whose buttons are that URL *)
(* followed by "#/burger-king" and by "#/init-data".                       *)
(***************************************************************************)
C1_StartButtons ==
    StartHandled =>
        LET args == call.update.args
            base == IF Len(args) >= 1 THEN args[1]
                    ELSE IF "webapp_url" \in DOMAIN bot_data
                    THEN bot_data["webapp_url"]
                    ELSE "https://example.com"
        IN  /\ Len(call.trace) = 1
            /\ call.trace[1].op = "reply"
            /\ ButtonUrls(call.trace[1]) = MenuFor(base)
            /\ (Len(args) = 0 /\ Len(sys_argv) < 3
                   => ButtonUrls(call.trace[1])
                          = <<"https://example.com#/burger-king",
                              "https://example.com#/init-data">>)

\* a /start with an argument that differs from the default was answered
C1_Witness ==
    /\ StartHandled
    /\ Len(call.update.args) >= 1
    /\ call.update.args[1] # StartupDefault
    /\ SentReplies # <<>>
    /\ ButtonUrls(SentReplies[1]) = MenuFor(call.update.args[1])

(***************************************************************************)
(* C3 as claimed: for every integer price_cents the price in the           *)
(* confirmation, and in the order line, is price_cents / 100 with exactly  *)
(* two decimals.                                                           *)
(***************************************************************************)
C3_PriceAnyInteger ==
    DataHandled =>
        \A tok \in PriceInts :
            OrderWithPrice(tok) => PriceShownAs(CentsAsPrice(tok))

(***************************************************************************)
(* C3 amended: the same for every integer price_cents of magnitude at most *)
(* 2^46 * 100 = 7036874417766400; above it the float quotient no longer    *)
(* determines the cents.                                                   *)
(***************************************************************************)
C3_PriceExactRange ==
    DataHandled =>
        \A tok \in PriceInts :
            OrderWithPrice(tok) /\ DigitsLeq(tok.ds, Exact46)
                => PriceShownAs(CentsAsPrice(tok))

\* an order of 5 cents was confirmed and logged as 0.05
C3_Witness ==
    /\ DataHandled
    /\ OrderWithPrice(IntTok(FALSE, <<5>>))
    /\ Len(call.trace) = 2
    /\ AllWentThrough
    /\ PriceShown(call.trace[1].text) = <<"0", ".", "0", "5">>
    /\ PriceLogged(call.trace[2].text) = <<"0", ".", "0", "5">>

(***************************************************************************)
(* C4: each of id, name and price_cents is defaulted on its own when its   *)
(* key is missing (name "Unknown", price 0.00, id None); whatever subset   *)
(* is missing, the handler's answer is the confirmation, the fields that   *)
(* are present read as themselves, and nothing else is sent when the       *)
(* confirmation and the order line go through.                             *)
(***************************************************************************)
GoodPrices ==
    {Absent} \cup { Present(<<tok>>) : tok \in { t \in PriceInts : DigitsLeq(t.ds, Exact46) } }

C4_Defaults ==
    DataHandled =>
        \A i \in IdChoices, n \in NameChoices, p \in GoodPrices :
            call.update.data = OrderText(i, n, p) =>
                /\ call.trace # <<>>
                /\ call.trace[1].op = "reply"
                /\ IsConfirmation(call.trace[1].text)
                /\ ItemShown(call.trace[1].text)
                       = (IF n = Absent THEN <<"Unknown">> ELSE ShownAs(n[1][1]))
                /\ PriceShown(call.trace[1].text)
                       = (IF p = Absent THEN <<"0", ".", "0", "0">>
                          ELSE CentsAsPrice(p[1][1]))
                /\ (i = Absent => IdShown(call.trace[1].text) = <<"None">>)
                /\ (IsScalar(i) => IdShown(call.trace[1].text) = ShownAs(i[1][1]))
                /\ (AllWentThrough =>
                       /\ ReturnedNormally
                       /\ Len(SentReplies) = 1
                       /\ Len(PrintedLines) = 1
                       /\ IsOrderLine(PrintedLines[1].text))

\* the empty object was confirmed with all three defaults
C4_Witness ==
    /\ DataHandled
    /\ call.update.data = OrderText(Absent, Absent, Absent)
    /\ AllWentThrough
    /\ Len(SentReplies) = 1
    /\ ItemShown(SentReplies[1].text) = <<"Unknown">>
    /\ PriceShown(SentReplies[1].text) = <<"0", ".", "0", "0">>
    /\ IdShown(SentReplies[1].text) = <<"None">>

(***************************************************************************)
(* C2 as claimed: whenever the payload text is not valid JSON, the only    *)
(* thing the handler does is send the fixed parse-error message: no        *)
(* [Order] line, no [Error] line, and it returns normally.                 *)
(***************************************************************************)
C2_ParseErrorOnly ==
    DataHandled /\ call.update.data \in NonJson =>
        /\ Len(call.trace) = 1
        /\ IsSentReply(call.trace[1])
        /\ IsParseError(call.trace[1].text)
        /\ ReturnedNormally

(***************************************************************************)
(* C5 as claimed: no invocation of handle_web_app_data lets an exception   *)
(* out to the dispatcher, whichever step fails.                            *)
(***************************************************************************)
C5_NothingPropagates == DataHandled => ReturnedNormally

(***************************************************************************)
(* C6 as claimed: whenever processing a parsed payload raises, the handler *)
(* sends the generic error message with the exception's text, prints the   *)
(* [Error] line with the same text, and neither sends the confirmation nor *)
(* prints an [Order] line.                                                 *)
(***************************************************************************)
GenericErrorTried ==
    \E k \in 1..Len(call.trace) :
        call.trace[k].op = "reply" /\ IsGenericError(call.trace[k].text)

C6_ErrorPath ==
    DataHandled /\ GenericErrorTried =>
        /\ \E k \in 1..(Len(call.trace) - 1) :
              /\ IsSentReply(call.trace[k])
              /\ IsGenericError(call.trace[k].text)
              /\ IsPrintedLine(call.trace[k + 1])
              /\ IsErrorLine(call.trace[k + 1].text)
              /\ Tail(call.trace[k + 1].text)
                     = SubSeq(call.trace[k].text, 3, Len(call.trace[k].text))
        /\ \A k \in 1..Len(SentReplies) : ~IsConfirmation(SentReplies[k].text)
        /\ \A k \in 1..Len(PrintedLines) : ~IsOrderLine(PrintedLines[k].text)

(***************************************************************************)
(* C7: without the token argument the program prints the usage line and    *)
(* exits with status 1, nothing having been built, registered or polled;   *)
(* with it, polling starts only after the WebApp URL (third word of the    *)
(* command line, else "https://example.com") is stored and both handlers   *)
(* are registered, and updates are dispatched only while polling.          *)
(***************************************************************************)
C7_StartupOrder ==
    /\ (Len(sys_argv) < 2 =>
           /\ pc \in {"check_args", "exited"}
           /\ ~app_built
           /\ handlers = <<>>
           /\ DOMAIN bot_data = {}
           /\ call.handler = "")
    /\ (pc = "exited" =>
           /\ Len(sys_argv) < 2
           /\ exit_status = <<1>>
           /\ stdout = << <<"Usage: python python_bot.py YOUR_BOT_TOKEN [WEBAPP_URL]">> >>)
    /\ (exit_status # <<>> => pc = "exited")
    /\ (pc = "polling" =>
           /\ app_built
           /\ DOMAIN bot_data = {"webapp_url"}
           /\ bot_data["webapp_url"] = StartupDefault
           /\ handlers = <<"start", "handle_web_app_data">>)
    /\ (call.handler # "" => pc = "polling")

\* an update was dispatched by a bot started with the token alone
C7_Witness ==
    /\ call.handler # ""
    /\ Len(sys_argv) = 2
    /\ pc = "polling"
    /\ "webapp_url" \in DOMAIN bot_data
    /\ bot_data["webapp_url"] = "https://example.com"
    /\ Len(handlers) = 2

(***************************************************************************)
(* C8: once polling, bot_data never changes: it keeps the URL stored at    *)
(* startup whatever /start commands and payloads are handled, and a /start *)
(* without arguments builds its buttons from it even after a /start that   *)
(* carried its own URL.                                                    *)
(***************************************************************************)
C8_SetOnce ==
    /\ [][pc = "polling" => bot_data' = bot_data]_vars
    /\ [](pc = "polling" => bot_data["webapp_url"] = StartupDefault)
    /\ [](StartHandled /\ call.update.args = <<>>
             => ButtonUrls(call.trace[1]) = MenuFor(StartupDefault))

\* a /start without arguments, after one with its own URL, was answered
\* with the startup default
C8_Witness ==
    /\ StartHandled
    /\ call.update.args = <<>>
    /\ last_override # ""
    /\ last_override # StartupDefault
    /\ SentReplies # <<>>
    /\ ButtonUrls(SentReplies[1]) = MenuFor(StartupDefault)
    /\ bot_data["webapp_url"] = StartupDefault

(***************************************************************************)
(* C9: an [Order] line is printed only right after the confirmation was    *)
(* sent successfully, and it names the user, the item and the price of     *)
(* that confirmation; when parsing, extraction, the division or the send   *)
(* fails there is no [Order] line.                                         *)
(***************************************************************************)
C9_OrderLineAfterConfirmation ==
    DataHandled =>
        \A k \in 1..Len(call.trace) :
            call.trace[k].op = "print" /\ IsOrderLine(call.trace[k].text) =>
                /\ k > 1
                /\ IsSentReply(call.trace[k - 1])
                /\ IsConfirmation(call.trace[k - 1].text)
                /\ Between(call.trace[k].text, "[Order] User ", " ordered: ")
                       = <<"4", "2">>
                /\ Between(call.trace[k].text, " ordered: ", " ($")
                       = ItemShown(call.trace[k - 1].text)
                /\ PriceLogged(call.trace[k].text)
                       = PriceShown(call.trace[k - 1].text)

\* an order was confirmed and then logged
C9_Witness ==
    /\ DataHandled
    /\ Len(call.trace) = 2
    /\ IsSentReply(call.trace[1])
    /\ IsConfirmation(call.trace[1].text)
    /\ IsPrintedLine(call.trace[2])
    /\ IsOrderLine(call.trace[2].text)
    /\ call.update.user_id = 42
    /\ ItemShown(call.trace[1].text) = <<"Whopper">>

(***************************************************************************)
(* C10 as claimed: an invocation of handle_web_app_data that returns       *)
(* normally has sent exactly one reply, and never both the confirmation    *)
(* and an error message.                                                   *)
(***************************************************************************)
C10_OneReply ==
    DataHandled /\ ReturnedNormally =>
        /\ Len(SentReplies) = 1
        /\ \/ IsConfirmation(SentReplies[1].text)
           \/ IsParseError(SentReplies[1].text)
           \/ IsGenericError(SentReplies[1].text)

====
